---- MODULE Spec2Model ----
(***************************************************************************)
(* Model of src/src/compress.rs: the asynchronous compression transducer   *)
(* (struct Compress, a Stream over an upstream Stream of byte chunks) and  *)
(* the synchronous compression sink (struct SeekableCompress, an           *)
(* io::Write over a downstream io::Write), both driving a seekable zstd    *)
(* compression stream (zstd_seekable::SeekableCStream).                    *)
(*                                                                         *)
(* A run drives one of the two on the input chunks: model says which.  The *)
(* two share nothing; each owns its codec handle.                          *)
(***************************************************************************)
EXTENDS Integers, Sequences, FiniteSets, TLC

(***************************************************************************)
(* Bounds of the model.                                                    *)
(***************************************************************************)
\* an input chunk holds 0..MaxChunkLen bytes
MaxChunkLen == 2
\* the input is a sequence of 0..MaxChunks chunks
MaxChunks == 2
\* frame_size is 1..MaxFrameSize input bytes per seekable frame
MaxFrameSize == 2
\* length of the scratch output buffer, CStream::out_size(), scaled down
OutSize == 2
\* the codec call that reports a failure is one of the first MaxFailAt (or none)
MaxFailAt == 4
\* the downstream write call that reports a fault is one of the first
\* MaxSinkFailAt (or none)
MaxSinkFailAt == 2
\* number of poll_next calls made on the transducer
MaxPolls == 5
\* number of flush calls made on the sync sink
MaxFlushes == 1

VARIABLES
    chunks,            \* the input: a sequence of byte chunks
    frame_size,        \* codec configuration: input bytes per frame
    fail_at,           \* codec fault schedule: the call that fails (0: none)
    model,             \* "async": the run polls Compress; "sync": it
                       \* writes to SeekableCompress
    Compress,          \* the async transducer (struct Compress)
    polls,             \* number of poll_next calls made so far
    last,              \* what the last poll_next returned
    elems,             \* the Some(..) elements poll_next has produced, in
                       \* order, each with the drain it came from (src)
    nones,             \* number of times poll_next has returned Ready(None)
    SeekableCompress,  \* the sync sink (struct SeekableCompress)
    life,              \* "live" until the sink is dropped, then "dropped"
    written,           \* number of chunks handed to write so far
    sret,              \* what the last call on the sink returned
    codec,             \* the codec's class: "progressing" when every compress
                       \* call consumes or produces a byte, "any" when a call
                       \* may do neither
    pc,                \* the call running on the sink, when its loop is
                       \* followed turn by turn: "write", "end" or "idle"
    write_buf,         \* write: buf, the input not yet consumed
    end_wrote          \* end_compression_internal: wrote, the bytes written
                       \* so far

vars == <<chunks, frame_size, fail_at, model, codec,
          Compress, polls, last, elems, nones,
          SeekableCompress, life, written, sret,
          pc, write_buf, end_wrote>>

cfg_vars == <<chunks, frame_size, fail_at, model, codec>>
async_vars == <<Compress, polls, last, elems, nones>>
sync_vars == <<SeekableCompress, life, written, sret>>
call_vars == <<pc, write_buf, end_wrote>>

(***************************************************************************)
(* Sequences.                                                              *)
(***************************************************************************)
Min(a, b) == IF a < b THEN a ELSE b

\* the element of a one-element set; Only({e(r) : r \in {x}}) is e(x) with x
\* evaluated once
Only(S) == CHOOSE x \in S : TRUE

TakeN(s, n) == SubSeq(s, 1, n)

DropN(s, n) == SubSeq(s, n + 1, Len(s))

RECURSIVE Flatten(_)
Flatten(ss) == IF ss = <<>> THEN <<>> ELSE Head(ss) \o Flatten(Tail(ss))

RECURSIVE SeqsUpTo(_, _)
SeqsUpTo(S, n) ==
    IF n = 0 THEN {<<>>}
    ELSE LET shorter == SeqsUpTo(S, n - 1)
         IN  shorter \cup {Append(s, x) : s \in {t \in shorter : Len(t) = n - 1}, x \in S}

\* The chunks of the given lengths.  Neither the drains nor the codec look at
\* the value of a byte, only at where it is, so the bytes of an input are
\* numbered 1, 2, ... in input order: a byte lost, repeated or out of place
\* shows in every sequence derived from the input.
RECURSIVE Cut(_, _)
Cut(lens, before) ==
    IF lens = <<>> THEN <<>>
    ELSE <<[i \in 1..Head(lens) |-> before + i]>>
         \o Cut(Tail(lens), before + Head(lens))

Inputs == {Cut(lens, 0) : lens \in SeqsUpTo(0..MaxChunkLen, MaxChunks)}

(***************************************************************************)
(* The codec handle, zstd_seekable::SeekableCStream.  It is an external    *)
(* collaborator; the model is the contract the drains rely on.  Input is   *)
(* buffered into the current frame; a frame that reaches frame_size bytes  *)
(* is closed and queued as output (a header token followed by one token    *)
(* per byte); one call emits at most OutSize queued tokens, and a call     *)
(* that finds output still queued consumes no input.  end_stream closes    *)
(* the open frame, queues the seek table (one entry per frame and a        *)
(* footer), and emits the queue OutSize tokens per call, then 0.           *)
(* fed, emitted, calls, n_compress and n_end record the calls made, and    *)
(* end_ret what each end_stream call returned (-1: a failure).  A compress *)
(* call takes at most k bytes of its input: the codec of the library takes *)
(* all the open frame has room for; one that takes none and has nothing    *)
(* queued returns (0, 0) and leaves the handle as it was, but for tick,    *)
(* which tells such a call from no call.                                   *)
(***************************************************************************)
cstream_new ==
    [buf |-> <<>>, pend |-> <<>>, frames |-> <<>>, ended |-> FALSE,
     calls |-> 0, n_compress |-> 0, n_end |-> 0,
     fed |-> <<>>, emitted |-> <<>>, emitted_end |-> <<>>, end_ret |-> <<>>,
     tick |-> 0]

EncodeFrame(buf) ==
    <<<<"h", Len(buf)>>>> \o [i \in 1..Len(buf) |-> <<"d", buf[i]>>]

SeekTable(frames) ==
    [i \in 1..Len(frames) |-> <<"e", frames[i]>>] \o <<<<"f", Len(frames)>>>>

close_frame(cs) ==
    [cs EXCEPT !.pend = @ \o EncodeFrame(cs.buf),
               !.frames = Append(@, Len(cs.buf)),
               !.buf = <<>>]

cstream_fails(cs) == cs.calls + 1 = fail_at

\* SeekableCStream::compress(buf_out, input) -> Result<(out_pos, in_pos)>,
\* the codec taking at most k bytes of input
cstream_compress_take(cs, input, k) ==
    LET c0 == [cs EXCEPT !.calls = @ + 1, !.n_compress = @ + 1]
    IN  IF cstream_fails(cs)
        THEN [cs |-> c0, err |-> TRUE, out |-> <<>>, in_pos |-> 0]
        ELSE IF cs.pend = <<>> /\ Min(k, Len(input)) = 0
        THEN [cs |-> [cs EXCEPT !.tick = 1 - @],
              err |-> FALSE, out |-> <<>>, in_pos |-> 0]
        ELSE LET take == IF c0.pend # <<>> THEN 0
                         ELSE Min(Min(k, Len(input)), frame_size - Len(c0.buf))
                 c1 == [c0 EXCEPT !.buf = @ \o TakeN(input, take),
                                  !.fed = @ \o TakeN(input, take)]
                 c2 == IF Len(c1.buf) = frame_size THEN close_frame(c1) ELSE c1
                 n  == Min(Len(c2.pend), OutSize)
             IN  [cs |-> [c2 EXCEPT !.pend = DropN(@, n),
                                    !.emitted = @ \o TakeN(c2.pend, n)],
                  err |-> FALSE, out |-> TakeN(c2.pend, n), in_pos |-> take]

\* SeekableCStream::compress of the library's codec
cstream_compress(cs, input) == cstream_compress_take(cs, input, Len(input))

\* SeekableCStream::end_stream(buf_out) -> Result<out_pos>
cstream_end_stream(cs) ==
    LET c0 == [cs EXCEPT !.calls = @ + 1, !.n_end = @ + 1]
    IN  IF cstream_fails(cs)
        THEN [cs |-> [c0 EXCEPT !.end_ret = Append(@, -1)],
              err |-> TRUE, out |-> <<>>]
        ELSE LET f  == IF c0.buf # <<>> THEN close_frame(c0) ELSE c0
                 c1 == IF c0.ended THEN c0
                       ELSE [f EXCEPT !.pend = @ \o SeekTable(f.frames),
                                      !.ended = TRUE]
                 n  == Min(Len(c1.pend), OutSize)
             IN  [cs |-> [c1 EXCEPT !.pend = DropN(@, n),
                                    !.emitted = @ \o TakeN(c1.pend, n),
                                    !.emitted_end = @ \o TakeN(c1.pend, n),
                                    !.end_ret = Append(@, n)],
                  err |-> FALSE, out |-> TakeN(c1.pend, n)]

(***************************************************************************)
(* The codec's matching decompressor: it reads the frames (header, then    *)
(* that many data tokens) and then the seek table, which must list the     *)
(* frames read.  It yields the decoded bytes, or ok = FALSE.                *)
(***************************************************************************)
RECURSIVE DecodeFrames(_, _, _)
DecodeFrames(s, data, frames) ==
    IF s # <<>> /\ Head(s)[1] = "h"
    THEN LET n == Head(s)[2]
             body == TakeN(Tail(s), Min(n, Len(s) - 1))
         IN  IF Len(body) < n \/ \E i \in 1..Len(body) : body[i][1] # "d"
             THEN [ok |-> FALSE, data |-> data, frames |-> frames, rest |-> s]
             ELSE DecodeFrames(DropN(s, n + 1),
                               data \o [i \in 1..n |-> body[i][2]],
                               Append(frames, n))
    ELSE [ok |-> TRUE, data |-> data, frames |-> frames, rest |-> s]

Decompress(s) ==
    LET r == DecodeFrames(s, <<>>, <<>>)
        ok == r.ok /\ r.rest = SeekTable(r.frames)
    IN  [ok |-> ok, data |-> IF ok THEN r.data ELSE <<>>]

(***************************************************************************)
(* The downstream sink, A: std::io::Write.  One write call accepts at most *)
(* cap of the bytes offered (a short write is no fault); write call number *)
(* fail_at reports a fault (0: none does).  data is what it has accepted,   *)
(* offered the buffers its write calls were given.  flushes counts its     *)
(* flush calls and flush_ret is what the last of them returned.            *)
(***************************************************************************)
out_new(cap, f) ==
    [data |-> <<>>, writes |-> 0, cap |-> cap, fail_at |-> f, offered |-> <<>>,
     flushes |-> 0, flush_ret |-> "none"]

\* A::write(&mut self, buf) -> io::Result<usize>
out_write(o, buf) ==
    LET o1 == [o EXCEPT !.writes = @ + 1, !.offered = Append(@, buf)]
        n  == Min(Len(buf), o.cap)
    IN  IF o.writes + 1 = o.fail_at
        THEN [out |-> o1, err |-> TRUE, n |-> 0]
        ELSE [out |-> [o1 EXCEPT !.data = @ \o TakeN(buf, n)], err |-> FALSE, n |-> n]

\* A::flush(&mut self) -> io::Result<()>; ok: the sink has no fault to report
out_flush(o, ok) ==
    [out |-> [o EXCEPT !.flushes = @ + 1,
                       !.flush_ret = IF ok THEN "Ok" ELSE "Err"],
     err |-> ~ok]

\* A::write_all(&mut self, buf) -> io::Result<()>: write until buf is empty
RECURSIVE out_write_all(_, _)
out_write_all(o, buf) ==
    IF buf = <<>> THEN [out |-> o, err |-> FALSE]
    ELSE Only({ IF r.err THEN [out |-> r.out, err |-> TRUE]
                ELSE out_write_all(r.out, DropN(buf, r.n))
                : r \in {out_write(o, buf)} })

(***************************************************************************)
(* The async transducer, struct Compress<S>.  stream is the upstream       *)
(* Stream: pos items delivered, polls poll_next calls received, done once  *)
(* it has answered None (it keeps answering None after that).  buf_out is  *)
(* scratch: its contents are copied out before every return.  drains and   *)
(* drain_errs count the finalize drains run and those that failed.         *)
(***************************************************************************)
new ==
    [stream |-> [pos |-> 0, polls |-> 0, done |-> FALSE],
     cstream |-> cstream_new,
     wrote_seek_table |-> FALSE,
     drains |-> 0, drain_errs |-> 0]

\* self.stream.poll_next(cx); ready: the upstream has an answer now
next_input(a, ready) ==
    LET s == [a.stream EXCEPT !.polls = @ + 1]
    IN  IF ~ready
        THEN [st |-> [a EXCEPT !.stream = s], kind |-> "Pending", item |-> <<>>]
        ELSE IF s.pos < Len(chunks)
        THEN [st |-> [a EXCEPT !.stream = [s EXCEPT !.pos = @ + 1]],
              kind |-> "Some", item |-> chunks[s.pos + 1]]
        ELSE [st |-> [a EXCEPT !.stream = [s EXCEPT !.done = TRUE]],
              kind |-> "None", item |-> <<>>]

\* the condition of the drain loop of compress_input: while input.is_empty()
compress_input_cond(input) == input = <<>>

RECURSIVE compress_input_loop(_, _, _)
compress_input_loop(cs, input, compressed_bytes) ==
    IF compress_input_cond(input)
    THEN Only({ IF r.err THEN [cs |-> r.cs, err |-> TRUE, data |-> <<>>]
                ELSE compress_input_loop(r.cs, DropN(input, r.in_pos),
                                         compressed_bytes \o r.out)
                : r \in {cstream_compress(cs, input)} })
    ELSE [cs |-> cs, err |-> FALSE, data |-> compressed_bytes]

compress_input(a, input) ==
    IF input = <<>>
    THEN [st |-> a, err |-> FALSE, data |-> <<>>]
    ELSE Only({ [st |-> [a EXCEPT !.cstream = r.cs], err |-> r.err, data |-> r.data]
                : r \in {compress_input_loop(a.cstream, input, <<>>)} })

\* the loop of end_stream, were it to stop after the first call
end_stream_loop_once(cs, out_pos, compressed_bytes) ==
    [cs |-> cs, err |-> FALSE, data |-> compressed_bytes]

RECURSIVE end_stream_loop(_, _, _)
end_stream_loop(cs, out_pos, compressed_bytes) ==
    IF out_pos > 0
    THEN Only({ IF r.err THEN [cs |-> r.cs, err |-> TRUE, data |-> <<>>]
                ELSE end_stream_loop(r.cs, Len(r.out), compressed_bytes \o r.out)
                : r \in {cstream_end_stream(cs)} })
    ELSE [cs |-> cs, err |-> FALSE, data |-> compressed_bytes]

\* end_stream_flag, were end_stream to leave wrote_seek_table alone
end_stream_flag_unset(a, r) == a.wrote_seek_table

\* what end_stream does to wrote_seek_table when the drain returned r
end_stream_flag(a, r) == IF r.err THEN a.wrote_seek_table ELSE TRUE

end_stream(a) ==
    Only({ [st |-> [a EXCEPT !.cstream = r.cs,
                             !.wrote_seek_table = end_stream_flag(a, r),
                             !.drains = @ + 1,
                             !.drain_errs = IF r.err THEN @ + 1 ELSE @],
            err |-> r.err, data |-> r.data]
           : r \in { IF r0.err THEN [cs |-> r0.cs, err |-> TRUE, data |-> <<>>]
                     ELSE end_stream_loop(r0.cs, Len(r0.out), r0.out)
                     : r0 \in {cstream_end_stream(a.cstream)} } })

\* finished, were it to forget the flag
finished_never(a) == FALSE

finished(a) == a.wrote_seek_table

\* yields, were poll_next to yield what a compress drain returned, empty or not
yields_always(compressed_data) == TRUE

\* poll_next yields what a compress drain returned: if !compressed_data.is_empty()
yields(compressed_data) == compressed_data # <<>>

\* the loop of poll_next; ready: how many upstream polls answer before one
\* answers Pending
RECURSIVE poll_loop(_, _)
poll_loop(a, ready) ==
    Only({
      CASE i.kind = "Pending" ->
             [st |-> i.st, kind |-> "Pending", data |-> <<>>]
        [] i.kind = "None" ->
             Only({ IF r.err THEN [st |-> r.st, kind |-> "Err", data |-> <<>>]
                    ELSE IF r.data = <<>>
                    THEN [st |-> r.st, kind |-> "None", data |-> <<>>]
                    ELSE [st |-> r.st, kind |-> "Ok", data |-> r.data]
                    : r \in {end_stream(i.st)} })
        [] i.kind = "Some" ->
             Only({ IF r.err THEN [st |-> r.st, kind |-> "Err", data |-> <<>>]
                    ELSE IF yields(r.data)
                    THEN [st |-> r.st, kind |-> "Ok", data |-> r.data]
                    ELSE poll_loop(r.st, ready - 1)
                    : r \in {compress_input(i.st, i.item)} })
      : i \in {next_input(a, ready > 0)} })

poll_next(a, ready) ==
    IF finished(a)
    THEN [st |-> a, kind |-> "None", data |-> <<>>]
    ELSE poll_loop(a, ready)

\* is_terminated, were it to answer false whatever the state
is_terminated_never(a) == FALSE

\* FusedStream::is_terminated
is_terminated(a) == a.wrote_seek_table

(***************************************************************************)
(* The sync sink, struct SeekableCompress<A>.  out is the downstream sink. *)
(* The scratch buffer of out_buffer() is made on demand and holds nothing  *)
(* between calls.  runs counts the calls of end_compression_internal.      *)
(***************************************************************************)
SeekableCompress_new(out) ==
    [cstream |-> cstream_new, out |-> out, wrote_seek_table |-> FALSE,
     runs |-> 0]

\* the loop of end_compression_internal
RECURSIVE end_compression_loop(_, _, _)
end_compression_loop(cs, o, wrote) ==
    Only({
      IF r.err THEN [cs |-> r.cs, out |-> o, ok |-> FALSE, val |-> 0]
      ELSE IF Len(r.out) = 0
      THEN [cs |-> r.cs, out |-> o, ok |-> TRUE, val |-> wrote]
      ELSE Only({ IF w.err
                  THEN [cs |-> r.cs, out |-> w.out, ok |-> FALSE, val |-> 0]
                  ELSE end_compression_loop(r.cs, w.out, wrote + w.n)
                  : w \in {out_write(o, r.out)} })
      : r \in {cstream_end_stream(cs)} })

end_compression_internal(s) ==
    Only({ [st |-> [s EXCEPT !.cstream = r.cs, !.out = r.out, !.runs = @ + 1],
            ok |-> r.ok, val |-> r.val]
           : r \in {end_compression_loop(s.cstream, s.out, 0)} })

\* the body of end_compression; self is dropped when it returns
end_compression(s) ==
    Only({ [st |-> [r.st EXCEPT !.wrote_seek_table = TRUE],
            ok |-> r.ok, val |-> r.val]
           : r \in {end_compression_internal(s)} })

\* drop, were it to finalize without looking at wrote_seek_table
drop_unchecked(s) == end_compression_internal(s).st

\* Drop::drop
drop(s) ==
    IF ~s.wrote_seek_table
    THEN end_compression_internal(s).st
    ELSE s

\* forward, were it to call write where it calls write_all
forward_once(o, compressed_data) ==
    IF compressed_data # <<>>
    THEN Only({ [out |-> w.out, err |-> w.err] : w \in {out_write(o, compressed_data)} })
    ELSE [out |-> o, err |-> FALSE]

\* forward, were write to hold every segment back
forward_nothing(o, compressed_data) == [out |-> o, err |-> FALSE]

\* write hands one segment the codec produced to the downstream sink
forward(o, compressed_data) ==
    IF compressed_data # <<>>
    THEN out_write_all(o, compressed_data)
    ELSE [out |-> o, err |-> FALSE]

\* the loop of write
RECURSIVE write_loop(_, _, _)
write_loop(cs, o, buf) ==
    IF buf # <<>>
    THEN Only({
           IF r.err THEN [cs |-> r.cs, out |-> o, ok |-> FALSE]
           ELSE Only({ IF w.err THEN [cs |-> r.cs, out |-> w.out, ok |-> FALSE]
                       ELSE write_loop(r.cs, w.out, DropN(buf, r.in_pos))
                       : w \in {forward(o, r.out)} })
           : r \in {cstream_compress(cs, buf)} })
    ELSE [cs |-> cs, out |-> o, ok |-> TRUE]

\* io::Write::write
write(s, buf) ==
    LET starting_len == Len(buf)
    IN  Only({ [st |-> [s EXCEPT !.cstream = r.cs, !.out = r.out],
                ok |-> r.ok, val |-> IF r.ok THEN starting_len ELSE 0]
               : r \in {write_loop(s.cstream, s.out, buf)} })

\* flush, were it to flush the downstream sink a second time
flush_twice(s, ok) ==
    Only({ [st |-> [s EXCEPT !.out = r.out], ok |-> ~r.err]
           : r \in {out_flush(out_flush(s.out, ok).out, ok)} })

\* io::Write::flush
flush(s, ok) ==
    Only({ [st |-> [s EXCEPT !.out = r.out], ok |-> ~r.err]
           : r \in {out_flush(s.out, ok)} })

(***************************************************************************)
(* The state machine.  The sink a run does not use is a sink that accepts  *)
(* every byte offered and reports no fault.                                *)
(***************************************************************************)
Sinks == {out_new(cap, f) : cap \in 1..OutSize, f \in 0..MaxSinkFailAt}

Init ==
    /\ chunks \in Inputs
    /\ frame_size \in 1..MaxFrameSize
    /\ fail_at \in 0..MaxFailAt
    /\ model \in {"async", "sync"}
    /\ Compress = new
    /\ polls = 0
    /\ last = "none yet"
    /\ elems = <<>>
    /\ nones = 0
    /\ SeekableCompress \in
         {SeekableCompress_new(o) :
            o \in IF model = "sync" THEN Sinks ELSE {out_new(OutSize, 0)}}
    /\ life = "live"
    /\ written = 0
    /\ sret = [op |-> "new", ok |-> TRUE, val |-> 0]
    /\ codec = "progressing"
    /\ pc = "idle"
    /\ write_buf = <<>>
    /\ end_wrote = 0

\* one call of Compress::poll_next by the consumer of the stream
PollNext ==
    /\ model = "async"
    /\ polls < MaxPolls
    /\ \E ready \in 0..(MaxChunks + 1) :
         \E r \in {poll_next(Compress, ready)} :
             /\ Compress' = r.st
             /\ last' = r.kind
             /\ elems' = IF r.kind \in {"Ok", "Err"}
                         THEN Append(elems,
                                [ok |-> r.kind = "Ok", data |-> r.data,
                                 src |-> IF r.st.drains > Compress.drains
                                         THEN "end_stream" ELSE "compress_input"])
                         ELSE elems
             /\ nones' = IF r.kind = "None" THEN nones + 1 ELSE nones
    /\ polls' = polls + 1
    /\ UNCHANGED <<cfg_vars, call_vars, sync_vars>>

\* one call of SeekableCompress::write, with the next chunk of the input
Write ==
    /\ model = "sync"
    /\ life = "live"
    /\ written < Len(chunks)
    /\ \E r \in {write(SeekableCompress, chunks[written + 1])} :
           /\ SeekableCompress' = r.st
           /\ sret' = [op |-> "write", ok |-> r.ok, val |-> r.val]
    /\ written' = written + 1
    /\ UNCHANGED <<cfg_vars, call_vars, async_vars, life>>

\* one call of SeekableCompress::flush
Flush ==
    /\ model = "sync"
    /\ life = "live"
    /\ SeekableCompress.out.flushes < MaxFlushes
    /\ \E ok \in BOOLEAN :
         \E r \in {flush(SeekableCompress, ok)} :
             /\ SeekableCompress' = r.st
             /\ sret' = [op |-> "flush", ok |-> r.ok, val |-> 0]
    /\ UNCHANGED <<cfg_vars, call_vars, async_vars, life, written>>

\* SeekableCompress::end_compression(self): the sink is consumed, so it is
\* dropped as the call returns
EndCompression ==
    /\ model = "sync"
    /\ life = "live"
    /\ \E r \in {end_compression(SeekableCompress)} :
           /\ SeekableCompress' = drop(r.st)
           /\ sret' = [op |-> "end_compression", ok |-> r.ok, val |-> r.val]
    /\ life' = "dropped"
    /\ UNCHANGED <<cfg_vars, call_vars, async_vars, written>>

\* the sink goes out of scope without end_compression
Drop ==
    /\ model = "sync"
    /\ life = "live"
    /\ SeekableCompress' = drop(SeekableCompress)
    /\ sret' = [op |-> "drop", ok |-> TRUE, val |-> 0]
    /\ life' = "dropped"
    /\ UNCHANGED <<cfg_vars, call_vars, async_vars, written>>

Next == PollNext \/ Write \/ Flush \/ EndCompression \/ Drop

Spec == Init /\ [][Next]_vars

(***************************************************************************)
(* The calls of the sync sink, turn by turn.  LoopSpec follows the loop of *)
(* write and the loop of end_compression_internal one turn at a time, so   *)
(* that a call that never returns is a behaviour.  The compress call of a  *)
(* turn takes any number of the bytes it is given, from one byte up, or    *)
(* from none up when the codec is of class "any".  A loop, once entered,   *)
(* keeps running: that is the fairness of LoopSpec.  When a call is made   *)
(* is the caller's choice.                                                 *)
(***************************************************************************)
\* write_done, were the loop of write to have no exit
write_done_never(b) == FALSE

\* the loop of write is left: while !buf.is_empty()
write_done(b) == b = <<>>

\* what one compress call on input may return
CompressOutcomes(cs, input) ==
    {cstream_compress_take(cs, input, k) :
        k \in (IF codec = "any" THEN 0 ELSE 1)..Len(input)}

\* the codec fails on its second call or on none, and the downstream sink
\* reports no fault: a failure ends the call that meets it at once
LoopInit ==
    /\ chunks \in Inputs
    /\ frame_size \in 1..MaxFrameSize
    /\ fail_at \in {0, 2}
    /\ model = "sync"
    /\ codec \in {"progressing", "any"}
    /\ Compress = new
    /\ polls = 0
    /\ last = "none yet"
    /\ elems = <<>>
    /\ nones = 0
    /\ SeekableCompress \in
         {SeekableCompress_new(o) : o \in {k \in Sinks : k.fail_at = 0}}
    /\ life = "live"
    /\ written = 0
    /\ sret = [op |-> "new", ok |-> TRUE, val |-> 0]
    /\ pc = "idle"
    /\ write_buf = <<>>
    /\ end_wrote = 0

\* write is called with the next chunk of the input
WriteCall ==
    /\ pc = "idle"
    /\ life = "live"
    /\ written < Len(chunks)
    /\ pc' = "write"
    /\ write_buf' = chunks[written + 1]
    /\ written' = written + 1
    /\ UNCHANGED <<cfg_vars, async_vars, SeekableCompress, life, sret, end_wrote>>

\* one turn of the loop of write
WriteIter ==
    /\ pc = "write"
    /\ ~write_done(write_buf)
    /\ \E r \in CompressOutcomes(SeekableCompress.cstream, write_buf) :
         \E w \in {IF r.err THEN [out |-> SeekableCompress.out, err |-> TRUE]
                    ELSE forward(SeekableCompress.out, r.out)} :
             /\ SeekableCompress' =
                    [SeekableCompress EXCEPT !.cstream = r.cs, !.out = w.out]
             /\ IF w.err
                THEN /\ pc' = "idle"
                     /\ write_buf' = <<>>
                     /\ sret' = [op |-> "write", ok |-> FALSE, val |-> 0]
                ELSE /\ pc' = "write"
                     /\ write_buf' = DropN(write_buf, r.in_pos)
                     /\ sret' = sret
    /\ UNCHANGED <<cfg_vars, async_vars, life, written, end_wrote>>

\* write returns Ok(starting_len)
WriteReturn ==
    /\ pc = "write"
    /\ write_done(write_buf)
    /\ pc' = "idle"
    /\ sret' = [op |-> "write", ok |-> TRUE, val |-> Len(chunks[written])]
    /\ UNCHANGED <<cfg_vars, async_vars, SeekableCompress, life, written,
                   write_buf, end_wrote>>

\* end_compression is called
EndCall ==
    /\ pc = "idle"
    /\ life = "live"
    /\ pc' = "end"
    /\ end_wrote' = 0
    /\ UNCHANGED <<cfg_vars, async_vars, SeekableCompress, life, written, sret,
                   write_buf>>

\* one turn of the loop of end_compression_internal; when it is left,
\* end_compression sets wrote_seek_table and returns, and the sink is dropped
EndIter ==
    /\ pc = "end"
    /\ \E r \in {cstream_end_stream(SeekableCompress.cstream)} :
         \E w \in {IF r.err \/ Len(r.out) = 0
                    THEN [out |-> SeekableCompress.out, err |-> r.err, n |-> 0]
                    ELSE out_write(SeekableCompress.out, r.out)} :
             IF w.err \/ Len(r.out) = 0
             THEN /\ SeekableCompress' =
                        drop([SeekableCompress EXCEPT !.cstream = r.cs,
                                                      !.out = w.out,
                                                      !.runs = @ + 1,
                                                      !.wrote_seek_table = TRUE])
                  /\ sret' = [op |-> "end_compression", ok |-> ~w.err,
                              val |-> IF w.err THEN 0 ELSE end_wrote]
                  /\ pc' = "idle"
                  /\ life' = "dropped"
                  /\ end_wrote' = end_wrote
             ELSE /\ SeekableCompress' =
                        [SeekableCompress EXCEPT !.cstream = r.cs, !.out = w.out]
                  /\ end_wrote' = end_wrote + w.n
                  /\ UNCHANGED <<sret, pc, life>>
    /\ UNCHANGED <<cfg_vars, async_vars, written, write_buf>>

LoopNext == WriteCall \/ WriteIter \/ WriteReturn \/ EndCall \/ EndIter

LoopSpec ==
    /\ LoopInit
    /\ [][LoopNext]_vars
    /\ WF_vars(WriteIter)
    /\ WF_vars(WriteReturn)
    /\ WF_vars(EndIter)

(***************************************************************************)
(* Vocabulary of the properties.                                           *)
(***************************************************************************)
\* the codec handle cs has reported no failure so far
NoCodecFault(cs) == fail_at = 0 \/ cs.calls < fail_at

\* the downstream sink o has reported no fault so far
NoSinkFault(o) == o.fail_at = 0 \/ o.writes < o.fail_at

\* the bytes of the Ok elements poll_next has produced so far, concatenated
AsyncOutput ==
    Flatten([i \in 1..Len(elems) |-> IF elems[i].ok THEN elems[i].data ELSE <<>>])

\* the set of the elements of sequence s
Range(s) == {s[i] : i \in 1..Len(s)}

\* the chunks the transducer has fetched from upstream so far
Fetched == TakeN(chunks, Compress.stream.pos)

\* the sync sink after write has been called with each chunk of cs in turn
RECURSIVE write_each(_, _)
write_each(s, cs) ==
    IF cs = <<>> THEN s ELSE write_each(write(s, Head(cs)).st, Tail(cs))

\* what the downstream sink of a sync sink holds after every chunk of the
\* input was written and end_compression called, the sink accepting every
\* byte and the codec and configuration being those of the transducer
SyncOutput ==
    end_compression(
        write_each(SeekableCompress_new(out_new(OutSize, 0)), chunks)).st.out.data

\* the tokens the codec emitted during the step
NewlyEmitted ==
    DropN(SeekableCompress.cstream.emitted', Len(SeekableCompress.cstream.emitted))

\* the step is a call of write
WriteStep == model = "sync" /\ written' = written + 1

\* the step is a call of flush
FlushStep == model = "sync" /\ life' = "live" /\ sret'.op = "flush" /\ written' = written

\* the step is a call of end_compression
EndStep == model = "sync" /\ life = "live" /\ sret'.op = "end_compression"

\* the step is a call of poll_next
PollStep == model = "async" /\ polls' = polls + 1

\* what the end_stream calls of the step returned, on codec handle cs
\* before the step and cs2 after it
EndReturns(cs, cs2) == DropN(cs2.end_ret, Len(cs.end_ret))

\* the finalize output the codec produced during the step
EndEmitted(cs, cs2) == DropN(cs2.emitted_end, Len(cs.emitted_end))

\* the returns R of a drain are positive counts and then one zero
StopsAtFirstZero(R) ==
    /\ R # <<>>
    /\ R[Len(R)] = 0
    /\ \A i \in 1..(Len(R) - 1) : R[i] > 0

\* the codec handle, cs before the step and cs2 after it, reported its
\* failure during the step
CodecFailedIn(cs, cs2) == fail_at > 0 /\ cs.calls < fail_at /\ cs2.calls >= fail_at

\* the poll_next of the step ended on a failure of a compress drain
CompressDrainFailed ==
    PollStep /\ last' = "Err" /\ Compress'.drains = Compress.drains

\* the poll_next of the step ended by yielding what a compress drain returned
CompressDrainYielded ==
    PollStep /\ last' \in {"Ok", "Err"} /\ Compress'.drains = Compress.drains

\* e is the element that carries the output of the finalize drain
FinalizeElement(e) == e.ok /\ e.src = "end_stream"

(***************************************************************************)
(* C1.  Cross-model equivalence: once the transducer has been pulled until *)
(* it yielded None, with no codec failure, the concatenation of its Ok     *)
(* elements equals what the sync sink hands downstream for the same        *)
(* chunks, codec and configuration.                                        *)
(***************************************************************************)
C1_CrossModelEquivalence ==
    (model = "async" /\ nones > 0 /\ fail_at = 0) => AsyncOutput = SyncOutput

(***************************************************************************)
(* C2.  When the finalize drain of the transducer has started, every byte  *)
(* of every item fetched from upstream has been submitted to the codec,    *)
(* once and in upstream order (no codec failure).                          *)
(***************************************************************************)
C2_AllInputSubmitted ==
    (model = "async" /\ fail_at = 0 /\ Compress.drains > 0)
        => Compress.cstream.fed = Flatten(Fetched)

(***************************************************************************)
(* C3.  Round trip of the sync sink: after non-empty chunks were all       *)
(* written and end_compression called, with no codec or downstream fault,  *)
(* the downstream sink holds exactly the codec's output stream (every      *)
(* input byte compressed in order, then the whole finalize output), and    *)
(* decompressing it gives back the concatenated input.                     *)
(***************************************************************************)
C3_SyncRoundTrip ==
    (/\ model = "sync"
     /\ sret.op = "end_compression"
     /\ written = Len(chunks)
     /\ \A i \in 1..Len(chunks) : chunks[i] # <<>>
     /\ NoCodecFault(SeekableCompress.cstream)
     /\ NoSinkFault(SeekableCompress.out))
        => /\ SeekableCompress.cstream.fed = Flatten(chunks)
           /\ SeekableCompress.out.data = SeekableCompress.cstream.emitted
           /\ Decompress(SeekableCompress.out.data)
                = [ok |-> TRUE, data |-> Flatten(chunks)]

(***************************************************************************)
(* C4.  When a finalize drain of the transducer has failed, the transducer *)
(* is Finalized (wrote_seek_table is true), it has produced exactly one    *)
(* error element, and it has run the finalize drain once only.             *)
(***************************************************************************)
C4_FailedFinalizeFinalizes ==
    (model = "async" /\ Compress.drain_errs > 0)
        => /\ Compress.wrote_seek_table
           /\ Compress.drains = 1
           /\ Cardinality({i \in 1..Len(elems) : ~elems[i].ok}) = 1

(***************************************************************************)
(* C5.  Idempotent termination: once poll_next has returned Ready(None),   *)
(* every later poll_next returns Ready(None) and leaves the transducer as  *)
(* it was: the upstream stream is not polled and the codec is not called.  *)
(***************************************************************************)
C5_IdempotentTermination ==
    [][(PollStep /\ nones > 0)
         => /\ last' = "None"
            /\ Compress'.stream = Compress.stream
            /\ Compress'.cstream = Compress.cstream
            /\ elems' = elems]_vars

\* poll_next was called again after it had returned Ready(None)
C5_Witness == model = "async" /\ nones >= 2

(***************************************************************************)
(* C6.  Over the life of a sync sink the finalize drain                    *)
(* (end_compression_internal) runs exactly once: not before the sink is    *)
(* ended or dropped, once by drop when end_compression was never called,   *)
(* and not again by drop after end_compression, whatever it returned.      *)
(***************************************************************************)
C6_FinalizeExactlyOnce ==
    model = "sync"
        => /\ life = "live" => SeekableCompress.runs = 0
           /\ life = "dropped" => SeekableCompress.runs = 1

\* end_compression returned an error after some writes, and the sink was dropped
C6_Witness ==
    /\ model = "sync"
    /\ life = "dropped"
    /\ written > 0
    /\ sret.op = "end_compression"
    /\ ~sret.ok

(***************************************************************************)
(* C8.  In both models an empty chunk causes no codec call and no output:  *)
(* a poll_next that fetches only empty chunks calls compress not at all    *)
(* and yields no element for them, and write of an empty chunk returns 0   *)
(* and leaves codec and downstream sink alone.  After an input with an     *)
(* empty chunk the finalize step still runs and delivers its whole output. *)
(***************************************************************************)
C8_EmptyChunk ==
    [][/\ (PollStep /\ \A i \in (Compress.stream.pos + 1)..(Compress'.stream.pos) :
                          chunks[i] = <<>>)
          => /\ Compress'.cstream.n_compress = Compress.cstream.n_compress
             /\ elems' # elems => Compress'.drains = Compress.drains + 1
       /\ (WriteStep /\ chunks[written + 1] = <<>>)
          => /\ sret' = [op |-> "write", ok |-> TRUE, val |-> 0]
             /\ SeekableCompress' = SeekableCompress
       /\ (/\ PollStep
           /\ \E i \in 1..Compress'.stream.pos : chunks[i] = <<>>
           /\ Compress'.drains > Compress.drains
           /\ NoCodecFault(Compress'.cstream))
          => /\ last' = "Ok"
             /\ elems'[Len(elems')].data = Compress'.cstream.emitted_end
             /\ elems'[Len(elems')].data # <<>>
       /\ (/\ EndStep
           /\ \E i \in 1..written : chunks[i] = <<>>
           /\ NoCodecFault(SeekableCompress'.cstream)
           /\ NoSinkFault(SeekableCompress'.out))
          => /\ SeekableCompress'.runs = 1
             /\ SeekableCompress'.cstream.emitted_end # <<>>
             /\ SeekableCompress'.out.data
                  = SeekableCompress.out.data \o SeekableCompress'.cstream.emitted_end
      ]_vars

(***************************************************************************)
(* C9.  A successful write(buf) returns Len(buf); the codec has then       *)
(* consumed exactly the bytes of buf, and the downstream sink has received *)
(* everything the codec emitted during the call, in order.                 *)
(***************************************************************************)
C9_WriteConsumesAll ==
    [][(WriteStep /\ sret'.ok)
         => /\ sret'.val = Len(chunks[written + 1])
            /\ SeekableCompress'.cstream.fed
                 = SeekableCompress.cstream.fed \o chunks[written + 1]
            /\ SeekableCompress'.out.data
                 = SeekableCompress.out.data \o NewlyEmitted]_vars

\* a write succeeded that took several compress calls, one of which
\* consumed only part of the input, into a sink that accepts one byte a call
C9_Witness ==
    /\ model = "sync"
    /\ sret.op = "write"
    /\ sret.ok
    /\ written = 1
    /\ Len(chunks[1]) > frame_size
    /\ SeekableCompress.cstream.n_compress > 1
    /\ SeekableCompress.out.cap = 1
    /\ Len(SeekableCompress.out.data) > 1

(***************************************************************************)
(* C10.  A successful end_compression has written downstream every byte    *)
(* the codec produced during the finalize drain, and returns their number, *)
(* for every sink that reports no fault, short writes included.            *)
(***************************************************************************)
C10_EndWritesAll ==
    [][(EndStep /\ sret'.ok)
         => /\ SeekableCompress'.out.data
                 = SeekableCompress.out.data \o SeekableCompress'.cstream.emitted_end
            /\ sret'.val = Len(SeekableCompress'.cstream.emitted_end)]_vars

(***************************************************************************)
(* C11.  The element that carries the finalize (seek-table) output is the  *)
(* last element of the sequence: no element of a compress drain, and no    *)
(* other element, comes after it, and the poll_next after it returns       *)
(* Ready(None).                                                            *)
(***************************************************************************)
C11_SeekTableLast ==
    [][PollStep
         => /\ \A i \in 1..Len(elems') :
                  FinalizeElement(elems'[i]) => i = Len(elems')
            /\ (elems # <<>> /\ FinalizeElement(elems[Len(elems)]))
                  => last' = "None" /\ elems' = elems]_vars

\* the finalize element was produced after input was fetched, and the
\* poll_next after it returned Ready(None)
C11_Witness ==
    /\ model = "async"
    /\ Compress.stream.pos > 0
    /\ elems # <<>>
    /\ FinalizeElement(elems[Len(elems)])
    /\ elems[Len(elems)].data # <<>>
    /\ last = "None"

(***************************************************************************)
(* C12.  When a codec compress call fails part-way through a compress      *)
(* drain, the drain returns the failure at once and makes no further codec *)
(* call.  As first stated: nothing that earlier compress calls of the same *)
(* drain produced reaches the caller (compress_input) or the downstream    *)
(* sink (write).                                                           *)
(***************************************************************************)
C12_FailedDrainDeliversNothing ==
    [][/\ CompressDrainFailed
          => /\ Compress'.cstream.calls = fail_at
             /\ elems' = Append(elems, [ok |-> FALSE, data |-> <<>>,
                                        src |-> "compress_input"])
       /\ (WriteStep /\ CodecFailedIn(SeekableCompress.cstream,
                                      SeekableCompress'.cstream))
          => /\ ~sret'.ok
             /\ SeekableCompress'.cstream.calls = fail_at
             /\ SeekableCompress'.out.data = SeekableCompress.out.data
      ]_vars

(***************************************************************************)
(* C12, as amended.  The same, but for write: what the earlier compress    *)
(* calls of the failed write produced has already been forwarded to the    *)
(* downstream sink, whole and in order, and stays there; nothing is        *)
(* written after the failure.  compress_input delivers nothing.            *)
(***************************************************************************)
C12_FailedDrain ==
    [][/\ CompressDrainFailed
          => /\ Compress'.cstream.calls = fail_at
             /\ elems' = Append(elems, [ok |-> FALSE, data |-> <<>>,
                                        src |-> "compress_input"])
       /\ (WriteStep /\ CodecFailedIn(SeekableCompress.cstream,
                                      SeekableCompress'.cstream))
          => /\ ~sret'.ok
             /\ SeekableCompress'.cstream.calls = fail_at
             /\ SeekableCompress'.out.data
                  = SeekableCompress.out.data \o NewlyEmitted
      ]_vars

\* the first write failed on a compress call after an earlier compress call
\* of the same write had produced output, which the downstream sink holds
C12_Witness ==
    /\ model = "sync"
    /\ sret.op = "write"
    /\ ~sret.ok
    /\ written = 1
    /\ SeekableCompress.cstream.calls = fail_at
    /\ SeekableCompress.cstream.n_compress > 1
    /\ SeekableCompress.cstream.emitted # <<>>
    /\ SeekableCompress.out.data = SeekableCompress.cstream.emitted

(***************************************************************************)
(* C13.  A finalize drain that meets no error calls end_stream until a     *)
(* call returns zero: every call before the last returned a positive       *)
(* count, the last returned zero, and none follows it.  The bytes of every *)
(* call are collected in order: end_stream returns them concatenated (as   *)
(* one element, or Ready(None) when there are none), and                   *)
(* end_compression_internal hands the bytes of each call, as one buffer,   *)
(* to the write of the downstream sink.                                    *)
(***************************************************************************)
C13_FinalizeDrainLoop ==
    [][/\ (/\ PollStep
           /\ Compress'.drains = Compress.drains + 1
           /\ Compress'.drain_errs = Compress.drain_errs)
          => LET R == EndReturns(Compress.cstream, Compress'.cstream)
                 D == EndEmitted(Compress.cstream, Compress'.cstream)
             IN  /\ StopsAtFirstZero(R)
                 /\ D = <<>> => last' = "None" /\ elems' = elems
                 /\ D # <<>> => /\ last' = "Ok"
                                /\ elems' = Append(elems,
                                      [ok |-> TRUE, data |-> D, src |-> "end_stream"])
       /\ (/\ model = "sync"
           /\ SeekableCompress'.runs = SeekableCompress.runs + 1
           /\ NoCodecFault(SeekableCompress'.cstream)
           /\ NoSinkFault(SeekableCompress'.out))
          => LET R == EndReturns(SeekableCompress.cstream, SeekableCompress'.cstream)
                 D == EndEmitted(SeekableCompress.cstream, SeekableCompress'.cstream)
                 W == DropN(SeekableCompress'.out.offered,
                            Len(SeekableCompress.out.offered))
             IN  /\ StopsAtFirstZero(R)
                 /\ Len(W) = Len(R) - 1
                 /\ \A i \in 1..Len(W) : Len(W[i]) = R[i]
                 /\ Flatten(W) = D
      ]_vars

\* a finalize drain of the sync sink took two calls that returned bytes and
\* a third that returned zero
C13_Witness ==
    /\ model = "sync"
    /\ sret.op = "end_compression"
    /\ sret.ok
    /\ Len(SeekableCompress.cstream.end_ret) = 3
    /\ SeekableCompress.cstream.end_ret[3] = 0
    /\ Len(SeekableCompress.cstream.emitted_end) > OutSize

(***************************************************************************)
(* C14.  The transducer never yields an empty Ok element.  A poll_next     *)
(* that does not end on the element of a compress drain has polled the     *)
(* upstream once more than it fetched items: after every compress drain    *)
(* that returned zero bytes it fetched again within the same call, and no  *)
(* compress output was left unyielded.  When the finalize drain returns    *)
(* zero bytes, poll_next returns Ready(None).                              *)
(***************************************************************************)
C14_NoEmptyElement ==
    [][(PollStep /\ ~finished(Compress))
         => LET fetched == Compress'.stream.pos - Compress.stream.pos
                polled  == Compress'.stream.polls - Compress.stream.polls
                emitted == DropN(Compress'.cstream.emitted,
                                 Len(Compress.cstream.emitted))
            IN  /\ \A i \in 1..Len(elems') :
                      elems'[i].ok => elems'[i].data # <<>>
                /\ IF CompressDrainYielded
                   THEN polled = fetched
                   ELSE /\ polled = fetched + 1
                        /\ emitted = EndEmitted(Compress.cstream, Compress'.cstream)
                /\ (/\ Compress'.drains = Compress.drains + 1
                    /\ Compress'.drain_errs = Compress.drain_errs
                    /\ EndEmitted(Compress.cstream, Compress'.cstream) = <<>>)
                      => last' = "None" /\ elems' = elems]_vars

\* the first poll_next fetched two non-empty items, whose drains returned
\* zero bytes, and polled the upstream a third time
C14_Witness ==
    /\ model = "async"
    /\ polls = 1
    /\ Compress.stream.pos = 2
    /\ Compress.stream.polls = 3
    /\ chunks[1] # <<>> /\ chunks[2] # <<>>
    /\ elems = <<>>

(***************************************************************************)
(* C15.  A poll_next that returns Pending, the upstream having answered    *)
(* Pending, has made no finalize call, changed neither wrote_seek_table    *)
(* nor the elements, and called the codec only to compress the items it    *)
(* fetched first.  What those items left in the codec is not lost: with no *)
(* codec failure, every byte of them is in what the elements so far and    *)
(* the finalize output to come decompress to.                              *)
(***************************************************************************)
C15_PendingKeepsOutput ==
    [][(PollStep /\ last' = "Pending")
         => /\ Compress'.wrote_seek_table = Compress.wrote_seek_table
            /\ Compress'.cstream.n_end = Compress.cstream.n_end
            /\ Compress'.stream.pos = Compress.stream.pos
                  => Compress'.cstream = Compress.cstream
            /\ elems' = elems
            /\ fail_at = 0
                  => LET rest == end_stream(Compress').data
                         data == Decompress(AsyncOutput' \o rest).data
                     IN  \A i \in (Compress.stream.pos + 1)..(Compress'.stream.pos) :
                             Range(chunks[i]) \subseteq Range(data)]_vars

(***************************************************************************)
(* C16.  flush calls the flush of the downstream sink exactly once and     *)
(* returns what it returned; it calls the codec not at all, writes nothing *)
(* downstream and leaves the codec and wrote_seek_table as they were.      *)
(***************************************************************************)
C16_FlushFrame ==
    [][FlushStep
         => /\ SeekableCompress'.out.flushes = SeekableCompress.out.flushes + 1
            /\ sret'.ok = (SeekableCompress'.out.flush_ret = "Ok")
            /\ SeekableCompress'.cstream = SeekableCompress.cstream
            /\ SeekableCompress'.wrote_seek_table = SeekableCompress.wrote_seek_table
            /\ SeekableCompress'.out.data = SeekableCompress.out.data
            /\ SeekableCompress'.out.writes = SeekableCompress.out.writes
            /\ SeekableCompress'.out.offered = SeekableCompress.out.offered
            /\ SeekableCompress'.runs = SeekableCompress.runs]_vars

\* flush was called with input buffered in the codec, the sink reported a
\* fault, and flush returned it
C16_Witness ==
    /\ model = "sync"
    /\ sret = [op |-> "flush", ok |-> FALSE, val |-> 0]
    /\ SeekableCompress.cstream.buf # <<>>
    /\ SeekableCompress.out.flushes = 1
    /\ SeekableCompress.out.flush_ret = "Err"

(***************************************************************************)
(* C18.  Once end_stream has been called on the codec of an instance,      *)
(* whether the call succeeded or failed, no later step calls compress on   *)
(* that codec, and no later poll_next polls the upstream stream; and       *)
(* wrote_seek_table, once true, stays true.                                *)
(***************************************************************************)
C18_InertAfterFinalize ==
    [][/\ (PollStep /\ Compress.cstream.n_end > 0)
          => /\ Compress'.cstream.n_compress = Compress.cstream.n_compress
             /\ Compress'.stream = Compress.stream
       /\ (model = "sync" /\ SeekableCompress.cstream.n_end > 0)
          => SeekableCompress'.cstream.n_compress
               = SeekableCompress.cstream.n_compress
       /\ Compress.wrote_seek_table => Compress'.wrote_seek_table
       /\ SeekableCompress.wrote_seek_table => SeekableCompress'.wrote_seek_table
      ]_vars

(***************************************************************************)
(* C19.  is_terminated() is true exactly when a finalize drain has         *)
(* completed without error.  While it is true, poll_next returns           *)
(* Ready(None); and once poll_next has returned Ready(None), it is true.   *)
(***************************************************************************)
C19_FusedConsistency ==
    [][PollStep
         => /\ is_terminated(Compress')
                  <=> Compress'.drains > Compress'.drain_errs
            /\ is_terminated(Compress) => last' = "None"
            /\ last' = "None" => is_terminated(Compress')
            /\ nones > 0 => is_terminated(Compress)]_vars

\* a finalize drain failed and is_terminated() answered false; the drain
\* was run again, is_terminated() answered true and poll_next returned
\* Ready(None)
C19_Witness ==
    /\ model = "async"
    /\ Compress.drain_errs = 1
    /\ Compress.drains = 2
    /\ is_terminated(Compress)
    /\ nones > 0

(***************************************************************************)
(* C17.  As first stated: every write call returns, whatever number of     *)
(* bytes from zero up each compress call consumes, and every finalize      *)
(* drain returns.                                                          *)
(***************************************************************************)
C17_ReturnsForAnyCodec ==
    /\ (pc = "write") ~> (pc = "idle")
    /\ (pc = "end") ~> (pc = "idle")

(***************************************************************************)
(* C17, as amended.  Every write call returns when each compress call of   *)
(* the codec consumes at least one byte of input or produces at least one  *)
(* byte of the output it holds; and every finalize drain returns.          *)
(***************************************************************************)
C17_Returns ==
    /\ (pc = "write" /\ codec = "progressing") ~> (pc = "idle")
    /\ (pc = "end") ~> (pc = "idle")

\* a write of two bytes returned Ok after more compress calls than bytes
\* were consumed: a call consumed nothing, and others less than they were
\* given
C17_Witness ==
    /\ codec = "progressing"
    /\ pc = "idle"
    /\ sret = [op |-> "write", ok |-> TRUE, val |-> 2]
    /\ SeekableCompress.cstream.n_compress
         > Len(SeekableCompress.cstream.fed)

====
